---- MODULE Spec2Model ----
(***************************************************************************)
(* Model of FaaSr_py/secrets_api/secret.py: faasr_secret (the secret       *)
(* resolver) and faasr_secret_gh (the environment-variable getter).        *)
(*                                                                         *)
(* A Python dict is a function whose DOMAIN is the set of keys present.    *)
(* An optional value (None or a value) is a sequence of length 0 or 1.     *)
(* An f-string message is the tuple of its literal and interpolated parts. *)
(* Each call runs in its own frame and advances one statement block at a   *)
(* time; the payload, the environment store and the logger are shared.     *)
(***************************************************************************)
EXTENDS Integers, Sequences, FiniteSets, TLC

VARIABLES payload, env, pc, frame, log

vars == <<payload, env, pc, frame, log>>

(* ------------------------------ bounds --------------------------------- *)

NumCallers == 2
MaxLog == 1

Callers == 1..NumCallers

(* ------------------------- the input universe -------------------------- *)

Funcs == {"f1", "f2"}
Servers == {"s1", "s2"}
FaaSTypes == {"GitHubActions", "githubactions", "AWS Lambda", ""}
EnvNames == {"MY_SECRET", "OTHER"}
EnvValues == {"", "abc123", " abc123 "}
SecretNames == {"", "MY_SECRET"}

SmallFuncs == {"f1"}
SmallServers == {"s1"}
SmallFaaSTypes == {"GitHubActions", "AWS Lambda"}
SmallEnvNames == {"MY_SECRET"}
SmallEnvValues == {"abc123"}

EmptyDict == [k \in {} |-> ""]

None == <<>>

Some(v) == <<v>>

DictsOver(keys, values) == UNION {[D -> values] : D \in SUBSET keys}

ActionConfigs(servers) ==
    {EmptyDict} \cup {[k \in {"FaaSServer"} |-> s] : s \in servers}

ServerConfigs(types) ==
    {EmptyDict} \cup {[k \in {"FaaSType"} |-> t] : t \in types}

MkPayload(fi, al, cs) ==
    [k \in (IF fi = None THEN {} ELSE {"FunctionInvoke"})
           \cup (IF al = None THEN {} ELSE {"ActionList"})
           \cup (IF cs = None THEN {} ELSE {"ComputeServers"})
       |-> CASE k = "FunctionInvoke" -> fi[1]
             [] k = "ActionList" -> al[1]
             [] k = "ComputeServers" -> cs[1]]

Payloads(funcs, servers, types) ==
    {MkPayload(fi, al, cs) :
        fi \in {None} \cup {Some(f) : f \in funcs \cup {""}},
        al \in {None} \cup {Some(d) : d \in DictsOver(funcs, ActionConfigs(servers))},
        cs \in {None} \cup {Some(d) : d \in DictsOver(servers, ServerConfigs(types))}}

Environments(names, values) == DictsOver(names, values)

(* --------------------------- Python helpers ---------------------------- *)

dict_get(d, k, default) == IF k \in DOMAIN d THEN d[k] ELSE default

(* os.getenv(name, "") : a default instead of None.                        *)
os_getenv_default(e, name) == IF name \in DOMAIN e THEN Some(e[name]) ELSE Some("")

os_getenv(e, name) == IF name \in DOMAIN e THEN Some(e[name]) ELSE None

(* The record is not emitted.                                              *)
logger_error_dropped(l, msg) == l

logger_error(l, msg) == Append(l, msg)

(* ----------------- the statement blocks of the two functions ----------- *)

Ok(v) == [ok |-> TRUE, val |-> v, kind |-> "", msg |-> <<>>]

Err(kind, msg) == [ok |-> FALSE, val |-> None, kind |-> kind, msg |-> msg]

(* `if secret_name is None` in place of `if not secret_name`.              *)
validate_secret_name_none_only(secret_name) == Ok(Some(secret_name))

validate_secret_name(secret_name) ==
    IF secret_name = ""
    THEN Err("ValueError", <<"faasr_secret: secret_name cannot be empty">>)
    ELSE Ok(Some(secret_name))

get_current_action(p) ==
    LET current_action == dict_get(p, "FunctionInvoke", "")
    IN  IF current_action = ""
        THEN Err("RuntimeError",
                 <<"faasr_secret: Cannot determine current function from payload">>)
        ELSE Ok(Some(current_action))

(* faasr_payload["ActionList"].get(current_action, {}) : no KeyError for a *)
(* missing entry.                                                          *)
get_action_config_defaulted(p, current_action) ==
    IF "ActionList" \in DOMAIN p
    THEN Ok(Some(dict_get(p["ActionList"], current_action, EmptyDict)))
    ELSE Err("RuntimeError",
             <<"faasr_secret: Function ", current_action, " not found in ActionList">>)

get_action_config(p, current_action) ==
    IF "ActionList" \in DOMAIN p /\ current_action \in DOMAIN p["ActionList"]
    THEN Ok(Some(p["ActionList"][current_action]))
    ELSE Err("RuntimeError",
             <<"faasr_secret: Function ", current_action, " not found in ActionList">>)

get_server_name(action_config, current_action) ==
    IF "FaaSServer" \in DOMAIN action_config
    THEN Ok(Some(action_config["FaaSServer"]))
    ELSE Err("RuntimeError",
             <<"faasr_secret: FaaSServer not found for function ", current_action>>)

get_server_type(p, server_name) ==
    IF /\ "ComputeServers" \in DOMAIN p
       /\ server_name \in DOMAIN p["ComputeServers"]
       /\ "FaaSType" \in DOMAIN p["ComputeServers"][server_name]
    THEN Ok(Some(p["ComputeServers"][server_name]["FaaSType"]))
    ELSE Err("RuntimeError",
             <<"faasr_secret: Compute server ", server_name,
               " not found or missing FaaSType">>)

UnsupportedType(server_type) ==
    Err("NotImplementedError",
        <<"faasr_secret: Compute server type '", server_type,
          "' is not supported. ",
          "Only GitHubActions is currently supported.">>)

(* case "GitHub Actions": a misspelt literal.                              *)
match_server_type_misspelt(server_type) ==
    IF server_type = "GitHub Actions" THEN Ok(None) ELSE UnsupportedType(server_type)

(* match server_type.lower(): a case-insensitive comparison.               *)
match_server_type_caseless(server_type) ==
    IF server_type \in {"GitHubActions", "githubactions"}
    THEN Ok(None)
    ELSE UnsupportedType(server_type)

(* No default case: every platform falls through to the environment.       *)
match_server_type_any(server_type) == Ok(None)

match_server_type(server_type) ==
    IF server_type = "GitHubActions"
    THEN Ok(None)
    ELSE UnsupportedType(server_type)

(* `if not secret_value` in place of `if secret_value is None`.            *)
check_secret_value_falsy(secret_value, secret_name) ==
    IF secret_value = None \/ secret_value = Some("")
    THEN Err("KeyError",
             <<"faasr_secret: Secret '", secret_name,
               "' not found in environment variables">>)
    ELSE Ok(secret_value)

check_secret_value(secret_value, secret_name) ==
    IF secret_value = None
    THEN Err("KeyError",
             <<"faasr_secret: Secret '", secret_name,
               "' not found in environment variables">>)
    ELSE Ok(secret_value)

(* dict.pop in place of dict.get.                                          *)
payload_after_pop(p, k) == [j \in DOMAIN p \ {k} |-> p[j]]

(* os.environ.pop in place of os.getenv.                                   *)
environ_after_pop(e, name) == [j \in DOMAIN e \ {name} |-> e[j]]

(* dict.get and os.getenv only read: the mapping they are applied to is    *)
(* left as it was.                                                         *)
payload_after_get(p, k) == p

environ_after_getenv(e, name) == e

(* ----------------------- the functions as a whole ---------------------- *)

Returned(v) == [kind |-> "Value", val |-> v, msg |-> <<>>]

Raised(kind, msg) == [kind |-> kind, val |-> "", msg |-> msg]

RaisedFrom(r) == Raised(r.kind, r.msg)

faasr_secret_gh(e, secret_name) ==
    LET r == check_secret_value(os_getenv(e, secret_name), secret_name)
    IN  IF r.ok THEN Returned(r.val[1]) ELSE RaisedFrom(r)

faasr_secret(p, secret_name, e) ==
    LET r1 == validate_secret_name(secret_name) IN
    IF ~r1.ok THEN RaisedFrom(r1) ELSE
    LET r2 == get_current_action(p) IN
    IF ~r2.ok THEN RaisedFrom(r2) ELSE
    LET r3 == get_action_config(p, r2.val[1]) IN
    IF ~r3.ok THEN RaisedFrom(r3) ELSE
    LET r4 == get_server_name(r3.val[1], r2.val[1]) IN
    IF ~r4.ok THEN RaisedFrom(r4) ELSE
    LET r5 == get_server_type(p, r4.val[1]) IN
    IF ~r5.ok THEN RaisedFrom(r5) ELSE
    LET r6 == match_server_type(r5.val[1]) IN
    IF ~r6.ok THEN RaisedFrom(r6) ELSE
    faasr_secret_gh(e, secret_name)

(* ------------------------------- state --------------------------------- *)

NewFrame(entry, faasr_payload, secret_name, environ, alone, overlapped) ==
    [entry |-> entry,
     faasr_payload |-> faasr_payload,
     environ |-> environ,
     secret_name |-> secret_name,
     current_action |-> "",
     action_config |-> EmptyDict,
     server_name |-> "",
     server_type |-> "",
     secret_value |-> None,
     env_read |-> FALSE,
     err_kind |-> "",
     err_msg |-> <<>>,
     result |-> None,
     alone |-> alone,
     overlapped |-> overlapped]

IdleFrame == NewFrame("", EmptyDict, "", EmptyDict, Returned(""), FALSE)

InFlight(c) == pc[c] \notin {"idle", "done"}

Overlaps(c) == \E d \in Callers \ {c} : InFlight(d)

InitWith(payloads, environments) ==
    /\ payload \in payloads
    /\ env \in environments
    /\ pc = [c \in Callers |-> "idle"]
    /\ frame = [c \in Callers |-> IdleFrame]
    /\ log = <<>>

Init == InitWith(Payloads(Funcs, Servers, FaaSTypes),
                 Environments(EnvNames, EnvValues))

InitSmall == InitWith(Payloads(SmallFuncs, SmallServers, SmallFaaSTypes),
                      Environments(SmallEnvNames, SmallEnvValues))

(* A block either falls through to the next block or leaves for the        *)
(* logger.error / raise pair with err_msg set.                             *)
Fail(c, r) ==
    /\ pc' = [pc EXCEPT ![c] = "log"]
    /\ frame' = [frame EXCEPT ![c].err_kind = r.kind, ![c].err_msg = r.msg]

(* ------------------------------ actions -------------------------------- *)

(* A call of faasr_secret(faasr_payload, secret_name).  The frame also      *)
(* notes the payload and the environment as they are at the call and what  *)
(* the call would give if it ran alone from here.                          *)
Call(c) ==
    /\ pc[c] = "idle"
    /\ \E secret_name \in SecretNames :
          frame' = [frame EXCEPT ![c] =
                       NewFrame("faasr_secret", payload, secret_name, env,
                                faasr_secret(payload, secret_name, env),
                                FALSE)]
    /\ pc' = [pc EXCEPT ![c] = "validate"]
    /\ UNCHANGED <<payload, env, log>>

(* A direct call of faasr_secret_gh(secret_name).                          *)
CallGh(c) ==
    /\ pc[c] = "idle"
    /\ \E secret_name \in SecretNames :
          frame' = [frame EXCEPT ![c] =
                       NewFrame("faasr_secret_gh", EmptyDict, secret_name, env,
                                faasr_secret_gh(env, secret_name),
                                FALSE)]
    /\ pc' = [pc EXCEPT ![c] = "gh_getenv"]
    /\ UNCHANGED <<payload, env, log>>

ValidateName(c) ==
    /\ pc[c] = "validate"
    /\ LET r == validate_secret_name(frame[c].secret_name)
       IN  IF r.ok
           THEN /\ pc' = [pc EXCEPT ![c] = "get_function"]
                /\ UNCHANGED frame
           ELSE Fail(c, r)
    /\ UNCHANGED <<payload, env, log>>

GetFunction(c) ==
    /\ pc[c] = "get_function"
    /\ LET r == get_current_action(payload)
       IN  IF r.ok
           THEN /\ pc' = [pc EXCEPT ![c] = "get_action"]
                /\ frame' = [frame EXCEPT ![c].current_action = r.val[1]]
           ELSE Fail(c, r)
    /\ payload' = payload_after_get(payload, "FunctionInvoke")
    /\ UNCHANGED <<env, log>>

GetAction(c) ==
    /\ pc[c] = "get_action"
    /\ LET r == get_action_config(payload, frame[c].current_action)
       IN  IF r.ok
           THEN /\ pc' = [pc EXCEPT ![c] = "get_server"]
                /\ frame' = [frame EXCEPT ![c].action_config = r.val[1]]
           ELSE Fail(c, r)
    /\ UNCHANGED <<payload, env, log>>

GetServer(c) ==
    /\ pc[c] = "get_server"
    /\ LET r == get_server_name(frame[c].action_config, frame[c].current_action)
       IN  IF r.ok
           THEN /\ pc' = [pc EXCEPT ![c] = "get_type"]
                /\ frame' = [frame EXCEPT ![c].server_name = r.val[1]]
           ELSE Fail(c, r)
    /\ UNCHANGED <<payload, env, log>>

GetType(c) ==
    /\ pc[c] = "get_type"
    /\ LET r == get_server_type(payload, frame[c].server_name)
       IN  IF r.ok
           THEN /\ pc' = [pc EXCEPT ![c] = "dispatch"]
                /\ frame' = [frame EXCEPT ![c].server_type = r.val[1]]
           ELSE Fail(c, r)
    /\ UNCHANGED <<payload, env, log>>

Dispatch(c) ==
    /\ pc[c] = "dispatch"
    /\ LET r == match_server_type(frame[c].server_type)
       IN  IF r.ok
           THEN /\ pc' = [pc EXCEPT ![c] = "gh_getenv"]
                /\ UNCHANGED frame
           ELSE Fail(c, r)
    /\ UNCHANGED <<payload, env, log>>

(* os.getenv and the None test.  The frame also notes whether another call *)
(* is under way while the environment is read.                             *)
GhGetenv(c) ==
    /\ pc[c] = "gh_getenv"
    /\ LET secret_value == os_getenv(env, frame[c].secret_name)
           r == check_secret_value(secret_value, frame[c].secret_name)
       IN  IF r.ok
           THEN /\ pc' = [pc EXCEPT ![c] = "return"]
                /\ frame' = [frame EXCEPT ![c].secret_value = secret_value,
                                          ![c].env_read = TRUE,
                                          ![c].overlapped = Overlaps(c)]
           ELSE /\ pc' = [pc EXCEPT ![c] = "log"]
                /\ frame' = [frame EXCEPT ![c].secret_value = secret_value,
                                          ![c].env_read = TRUE,
                                          ![c].overlapped = Overlaps(c),
                                          ![c].err_kind = r.kind,
                                          ![c].err_msg = r.msg]
    /\ env' = environ_after_getenv(env, frame[c].secret_name)
    /\ UNCHANGED <<payload, log>>

LogError(c) ==
    /\ pc[c] = "log"
    /\ log' = logger_error(log, frame[c].err_msg)
    /\ pc' = [pc EXCEPT ![c] = "raise"]
    /\ UNCHANGED <<payload, env, frame>>

Finish(c, outcome) ==
    /\ pc' = [pc EXCEPT ![c] = "done"]
    /\ frame' = [frame EXCEPT ![c].result = Some(outcome)]
    /\ UNCHANGED <<payload, env, log>>

Raise(c) ==
    /\ pc[c] = "raise"
    /\ Finish(c, Raised(frame[c].err_kind, frame[c].err_msg))

Return(c) ==
    /\ pc[c] = "return"
    /\ Finish(c, Returned(frame[c].secret_value[1]))

(* The caller, having its result, is free to call again.                   *)
Again(c) ==
    /\ pc[c] = "done"
    /\ Len(log) < MaxLog
    /\ pc' = [pc EXCEPT ![c] = "idle"]
    /\ frame' = [frame EXCEPT ![c] = IdleFrame]
    /\ UNCHANGED <<payload, env, log>>

Blocks(c) ==
    \/ ValidateName(c)
    \/ GetFunction(c)
    \/ GetAction(c)
    \/ GetServer(c)
    \/ GetType(c)
    \/ Dispatch(c)
    \/ GhGetenv(c)
    \/ LogError(c)
    \/ Raise(c)
    \/ Return(c)

(* One call site, one call of either function: the sequential program.     *)
Next == Call(1) \/ CallGh(1) \/ Blocks(1)

Spec == Init /\ [][Next]_vars

(* Several call sites calling faasr_secret again and again, interleaved    *)
(* step by step.                                                           *)
NextConc == \E c \in Callers : Call(c) \/ Blocks(c) \/ Again(c)

SpecConc == InitSmall /\ [][NextConc]_vars

(* --------------------------- vocabulary -------------------------------- *)

Done(c) == pc[c] = "done"

Result(c) == frame[c].result[1]

ViaResolver(c) == frame[c].entry = "faasr_secret"

ViaGetter(c) == frame[c].entry = "faasr_secret_gh"

HasFunction(p) == "FunctionInvoke" \in DOMAIN p /\ p["FunctionInvoke"] # ""

HasAction(p) ==
    /\ HasFunction(p)
    /\ "ActionList" \in DOMAIN p
    /\ p["FunctionInvoke"] \in DOMAIN p["ActionList"]

HasServer(p) ==
    /\ HasAction(p)
    /\ "FaaSServer" \in DOMAIN p["ActionList"][p["FunctionInvoke"]]

ServerOf(p) == p["ActionList"][p["FunctionInvoke"]]["FaaSServer"]

HasType(p) ==
    /\ HasServer(p)
    /\ "ComputeServers" \in DOMAIN p
    /\ ServerOf(p) \in DOMAIN p["ComputeServers"]
    /\ "FaaSType" \in DOMAIN p["ComputeServers"][ServerOf(p)]

TypeOf(p) == p["ComputeServers"][ServerOf(p)]["FaaSType"]

OnGitHub(p) == HasType(p) /\ TypeOf(p) = "GitHubActions"

Mentions(msg, word) == \E i \in DOMAIN msg : msg[i] = word

Logged(l, msg) == \E i \in DOMAIN l : l[i] = msg

(* ------------------------------ claims --------------------------------- *)

(* C1: with a non-empty secret_name, a payload whose chain FunctionInvoke  *)
(* -> ActionList -> FaaSServer -> ComputeServers -> FaaSType ends in       *)
(* "GitHubActions", and secret_name set in the environment, faasr_secret   *)
(* returns exactly the value the environment holds; no error is raised.    *)
C1_ReturnsEnvValue ==
    \A c \in Callers :
        ( /\ Done(c) /\ ViaResolver(c)
          /\ frame[c].secret_name # ""
          /\ OnGitHub(payload)
          /\ frame[c].secret_name \in DOMAIN env )
        => /\ Result(c).kind = "Value"
           /\ Result(c).val = env[frame[c].secret_name]

C1_Witness ==
    /\ Done(1) /\ ViaResolver(1)
    /\ frame[1].secret_name = "MY_SECRET"
    /\ HasType(payload)
    /\ payload["FunctionInvoke"] = "f1" /\ ServerOf(payload) = "s1"
    /\ TypeOf(payload) = "GitHubActions"
    /\ "MY_SECRET" \in DOMAIN env /\ env["MY_SECRET"] = "abc123"
    /\ Result(1) = Returned("abc123")

(* C2: faasr_secret with the empty secret_name raises ValueError           *)
(* (Invalid-Argument) whatever the payload and the environment hold.       *)
C2_EmptyNameInvalid ==
    \A c \in Callers :
        (Done(c) /\ ViaResolver(c) /\ frame[c].secret_name = "")
        => /\ Result(c).kind = "ValueError"
           /\ Result(c).msg = <<"faasr_secret: secret_name cannot be empty">>

C2_Witness ==
    /\ Done(1) /\ ViaResolver(1)
    /\ frame[1].secret_name = ""
    /\ DOMAIN payload = {}
    /\ Result(1).kind = "ValueError"

(* C3: with a non-empty secret_name and a payload whose chain ends in a    *)
(* FaaSType t other than exactly "GitHubActions", faasr_secret raises      *)
(* NotImplementedError (Unsupported-Platform) and the message names t,     *)
(* whether or not secret_name is set in the environment.                   *)
C3_UnsupportedPlatform ==
    \A c \in Callers :
        ( /\ Done(c) /\ ViaResolver(c)
          /\ frame[c].secret_name # ""
          /\ HasType(payload)
          /\ TypeOf(payload) # "GitHubActions" )
        => /\ Result(c).kind = "NotImplementedError"
           /\ Len(Result(c).msg) = 4
           /\ Result(c).msg[2] = TypeOf(payload)
           /\ Result(c).msg[4] = "Only GitHubActions is currently supported."

C3_Witness ==
    /\ Done(1) /\ ViaResolver(1)
    /\ frame[1].secret_name = "MY_SECRET"
    /\ "MY_SECRET" \in DOMAIN env
    /\ HasType(payload)
    /\ TypeOf(payload) = "githubactions"
    /\ Result(1).kind = "NotImplementedError"
    /\ Mentions(Result(1).msg, "githubactions")

(* C4: with a non-empty secret_name, a missing link of the chain raises    *)
(* RuntimeError (Resolution-Failure) naming the offending element:         *)
(* (a) FunctionInvoke absent or empty: "Cannot determine current function";*)
(* (b) no ActionList entry for FunctionInvoke: names the function;         *)
(* (c) the entry has no FaaSServer: names the function;                    *)
(* (d) no ComputeServers entry for the server, or no FaaSType in it:       *)
(*     names the server.                                                   *)
C4_ResolutionFailure ==
    \A c \in Callers :
        (Done(c) /\ ViaResolver(c) /\ frame[c].secret_name # "")
        => /\ ~HasFunction(payload)
              => Result(c) = Raised("RuntimeError",
                     <<"faasr_secret: Cannot determine current function from payload">>)
           /\ (HasFunction(payload) /\ ~HasAction(payload))
              => Result(c) = Raised("RuntimeError",
                     <<"faasr_secret: Function ", payload["FunctionInvoke"],
                       " not found in ActionList">>)
           /\ (HasAction(payload) /\ ~HasServer(payload))
              => Result(c) = Raised("RuntimeError",
                     <<"faasr_secret: FaaSServer not found for function ",
                       payload["FunctionInvoke"]>>)
           /\ (HasServer(payload) /\ ~HasType(payload))
              => Result(c) = Raised("RuntimeError",
                     <<"faasr_secret: Compute server ", ServerOf(payload),
                       " not found or missing FaaSType">>)

C4_Witness ==
    /\ Done(1) /\ ViaResolver(1)
    /\ frame[1].secret_name = "MY_SECRET"
    /\ HasFunction(payload) /\ payload["FunctionInvoke"] = "f1"
    /\ "ActionList" \in DOMAIN payload
    /\ DOMAIN payload["ActionList"] = {"f2"}
    /\ Result(1).kind = "RuntimeError"
    /\ Mentions(Result(1).msg, "f1")

(* C5: for a name present in the environment, faasr_secret_gh returns the  *)
(* stored value exactly as stored; an empty value or one with surrounding  *)
(* whitespace is returned as it is and is not reported as missing.         *)
C5_GetterVerbatim ==
    \A c \in Callers :
        (Done(c) /\ ViaGetter(c) /\ frame[c].secret_name \in DOMAIN env)
        => Result(c) = Returned(env[frame[c].secret_name])

C5_Witness ==
    /\ Done(1) /\ ViaGetter(1)
    /\ frame[1].secret_name = "MY_SECRET"
    /\ "MY_SECRET" \in DOMAIN env /\ env["MY_SECRET"] = ""
    /\ Result(1) = Returned("")

(* C6: for a name absent from the environment, faasr_secret_gh raises      *)
(* KeyError (Not-Found) naming the secret and returns no default; and      *)
(* faasr_secret on a "GitHubActions" payload with a non-empty absent       *)
(* secret_name raises that same error.                                     *)
NotFound(secret_name) ==
    Raised("KeyError", <<"faasr_secret: Secret '", secret_name,
                         "' not found in environment variables">>)

C6_AbsentNotFound ==
    \A c \in Callers :
        (Done(c) /\ frame[c].secret_name \notin DOMAIN env)
        => /\ ViaGetter(c) => Result(c) = NotFound(frame[c].secret_name)
           /\ (ViaResolver(c) /\ frame[c].secret_name # "" /\ OnGitHub(payload))
              => Result(c) = NotFound(frame[c].secret_name)

C6_Witness ==
    /\ Done(1) /\ ViaResolver(1)
    /\ frame[1].secret_name = "MY_SECRET"
    /\ OnGitHub(payload)
    /\ "MY_SECRET" \notin DOMAIN env /\ "OTHER" \in DOMAIN env
    /\ Result(1).kind = "KeyError"
    /\ Mentions(Result(1).msg, "MY_SECRET")

(* C7: every failure is logged before it is signalled: whenever a call     *)
(* ends in an error, a log record with the error's message was already     *)
(* emitted in an earlier step.                                             *)
C7_LoggedBeforeRaised ==
    [][\A c \in Callers :
          (pc[c] # "done" /\ pc'[c] = "done" /\ frame'[c].result[1].kind # "Value")
          => Logged(log, frame'[c].result[1].msg)]_vars

C7_Witness ==
    /\ Done(1)
    /\ Result(1).kind = "KeyError"
    /\ log = <<Result(1).msg>>

(* C8: the calls mutate nothing and keep nothing between calls: no step    *)
(* changes the payload or the environment, and any two finished calls of   *)
(* the same function with the same payload, secret_name and environment    *)
(* have the same outcome, whatever each call site ran before.              *)
SameCall(f, g) ==
    /\ f.entry = g.entry
    /\ f.secret_name = g.secret_name
    /\ DOMAIN f.faasr_payload = DOMAIN g.faasr_payload
    /\ f.faasr_payload = g.faasr_payload
    /\ DOMAIN f.environ = DOMAIN g.environ
    /\ f.environ = g.environ

C8_NoMutationNoState ==
    [][/\ payload' = payload
       /\ env' = env
       /\ \A c, d \in Callers :
             (pc'[c] = "done" /\ pc'[d] = "done" /\ SameCall(frame'[c], frame'[d]))
             => frame'[c].result = frame'[d].result]_vars

C8_Witness ==
    /\ Done(1) /\ Done(2)
    /\ ViaResolver(1) /\ ViaResolver(2)
    /\ frame[1].secret_name = "MY_SECRET" /\ frame[2].secret_name = "MY_SECRET"
    /\ Result(1) = Result(2)
    /\ Result(1).kind = "Value"
    /\ ~frame[1].overlapped /\ ~frame[2].overlapped

(* C9: calls interleaved step by step over the shared payload and          *)
(* environment each end with the outcome (value or error kind) the call    *)
(* would have produced running alone.                                      *)
C9_InterleavingSafe ==
    \A c \in Callers :
        Done(c) => /\ Result(c).kind = frame[c].alone.kind
                   /\ Result(c).val = frame[c].alone.val

C9_Witness ==
    /\ Done(1) /\ Done(2)
    /\ frame[1].overlapped \/ frame[2].overlapped
    /\ frame[1].secret_name = "MY_SECRET" /\ frame[2].secret_name = "MY_SECRET"
    /\ Result(1).kind = "Value" /\ Result(2).kind = "Value"

(* C10: the checks run in a fixed order and only the first failing one is  *)
(* reported: secret_name, FunctionInvoke, the ActionList entry, FaaSServer,*)
(* the ComputeServers entry with its FaaSType, the FaaSType dispatch, and  *)
(* last the environment lookup; the environment is read only when FaaSType *)
(* is "GitHubActions".                                                     *)
FirstDefect(p, secret_name, e) ==
    CASE secret_name = "" -> "ValueError"
      [] secret_name # "" /\ ~HasType(p) -> "RuntimeError"
      [] secret_name # "" /\ HasType(p) /\ TypeOf(p) # "GitHubActions"
            -> "NotImplementedError"
      [] secret_name # "" /\ OnGitHub(p) /\ secret_name \notin DOMAIN e -> "KeyError"
      [] OTHER -> "Value"

BlockOrder ==
    [validate |-> 1, get_function |-> 2, get_action |-> 3, get_server |-> 4,
     get_type |-> 5, dispatch |-> 6, gh_getenv |-> 7]

C10_FirstDefectDecides ==
    \A c \in Callers :
        ViaResolver(c) =>
           /\ Done(c) => Result(c).kind = FirstDefect(payload, frame[c].secret_name, env)
           /\ frame[c].env_read => (frame[c].secret_name # "" /\ OnGitHub(payload))
           /\ pc[c] \in DOMAIN BlockOrder =>
                 /\ BlockOrder[pc[c]] > 1 => frame[c].secret_name # ""
                 /\ BlockOrder[pc[c]] > 2 => HasFunction(payload)
                 /\ BlockOrder[pc[c]] > 3 => HasAction(payload)
                 /\ BlockOrder[pc[c]] > 4 => HasServer(payload)
                 /\ BlockOrder[pc[c]] > 5 => HasType(payload)
                 /\ BlockOrder[pc[c]] > 6 => OnGitHub(payload)

C10_Witness ==
    /\ Done(1) /\ ViaResolver(1)
    /\ frame[1].secret_name = "MY_SECRET"
    /\ "MY_SECRET" \notin DOMAIN env
    /\ HasType(payload) /\ TypeOf(payload) = "AWS Lambda"
    /\ Result(1).kind = "NotImplementedError"
    /\ ~frame[1].env_read

====
